---- MODULE Spec2Model ----
(***************************************************************************)
(* BookPriceFinder: the search aggregator (bookfinder/search.py), the      *)
(* result cache and the per-IP rate limiter of the web UI                  *)
(* (bookfinder/web.py), the adapter registry (adapters/registry.py) and    *)
(* the wishlist deal matcher (db/database.py).                             *)
(*                                                                         *)
(* Text (titles, source names, queries) is a sequence of code points, so   *)
(* that ordering and equality are those of Python's str.  Prices are       *)
(* integers (whole currency units); an optional value is <<>> (None) or    *)
(* <<x>>.                                                                  *)
(***************************************************************************)
EXTENDS Integers, Sequences, FiniteSets, TLC

VARIABLES
    \* ---- one call of search_all_with_report (search.py) ----
    adapters,     \* the adapter list of the call: a sequence of adapter names
    task,         \* task[i]: the state of _safe_search(adapters[i]), what its adapter
                  \* raised (exc) and the list its adapter returned (value)
    nested,       \* nested[i]: what _safe_search(adapters[i]) returned
    report,       \* the SearchReport being built
    phase,        \* "gather" (awaiting asyncio.gather) | "done" | "failed"
    finished,     \* history: the indexes of the tasks in the order they completed
    supplied,     \* the `adapters` argument of the call: None or Some(list)
    \* ---- the web process (web.py) ----
    now,          \* time.time()
    cache,        \* _CACHE, in dict (insertion) order: entries [key, created_at, report]
    lastSearch,   \* _LAST_SEARCH: client ip -> time, keys materialised on first read
    saved,        \* saved_searches table: sequence of params records, id = index
    nruns,        \* number of search_all_with_report calls made by the process
    resp,         \* the response to the request handled last
    granted,      \* history: client ip -> time of its last /search that passed the limiter
    inflight,     \* the _cached_search calls suspended in `await search_all_with_report`
    \* ---- the adapter registry (adapters/registry.py) ----
    custom,       \* _custom_adapters: the names of the adapters registered at runtime
    \* ---- the wishlist (db/database.py) ----
    wishlist,     \* the rows get_wishlist() returns, in its order
    quotes,       \* the results list handed to check_wishlist_deals last
    deals,        \* what check_wishlist_deals returned last: a sequence of <<entry, quote>>
    \* ---- the command line and the config file (cli.py, config.py) ----
    files,        \* path -> None (no such file) or Some(content of the config file)
    cli           \* the outcome of the command or call made last

aggVars == <<adapters, task, nested, report, phase, finished, supplied>>
webVars == <<now, cache, lastSearch, saved, nruns, resp, granted, inflight>>
libVars == <<custom, wishlist, quotes, deals, files, cli>>
vars ==
    <<adapters, task, nested, report, phase, finished, supplied, now, cache, lastSearch,
      saved, nruns, resp, granted, inflight, custom, wishlist, quotes, deals, files, cli>>

\* ------------------------------------------------------------------ bounds
MaxBatch == 2          \* longest list one adapter returns
MaxElapsed == 1        \* largest elapsed duration of one aggregator run

\* -------------------------------------------------------------------- text
None == <<>>
Some(x) == <<x>>

Min(S) == CHOOSE x \in S : \A y \in S : x <= y

\* Python's ordering of str and of tuples of numbers: lexicographic, a proper
\* prefix first.
LexLess(a, b) ==
    \E i \in 1..(Len(a) + 1) :
        /\ i <= Len(b)
        /\ \A j \in 1..(i - 1) : a[j] = b[j]
        /\ (i = Len(a) + 1 \/ a[i] < b[i])

\* list.sort(key=...): stable, ascending in the key.  s is a sequence of [k, v].
InsertStable(s, x) ==
    LET later == {j \in 1..Len(s) : LexLess(x.k, s[j].k)}
        p == IF later = {} THEN Len(s) + 1 ELSE Min(later)
    IN  SubSeq(s, 1, p - 1) \o <<x>> \o SubSeq(s, p, Len(s))

\* list.sort(key=..., reverse=True): stable, descending in the key.
InsertStableReverse(s, x) ==
    LET later == {j \in 1..Len(s) : LexLess(s[j].k, x.k)}
        p == IF later = {} THEN Len(s) + 1 ELSE Min(later)
    IN  SubSeq(s, 1, p - 1) \o <<x>> \o SubSeq(s, p, Len(s))

RECURSIVE SortKeyed(_, _)
SortKeyed(s, reverse) ==
    IF s = <<>> THEN <<>>
    ELSE LET front == SortKeyed(SubSeq(s, 1, Len(s) - 1), reverse)
         IN  IF reverse THEN InsertStableReverse(front, s[Len(s)])
             ELSE InsertStable(front, s[Len(s)])

Values(keyed) == [i \in 1..Len(keyed) |-> keyed[i].v]

\* ------------------------------------------------------------- models.py
\* BookResult.total_price: price + (shipping or 0.0)
TotalPrice(r) ==
    r.price + (IF r.shipping = None THEN 0 ELSE r.shipping[1])

\* ------------------------------------------------------------- search.py
\* SearchReport(): the report as constructed, before any adapter has run.
\* `id` is the identity of the report object (two reports are the same object
\* iff their ids are equal); 0 outside the web process.
EmptyDict == [x \in {} |-> 0]
EmptyReport ==
    [results |-> <<>>, source_counts |-> EmptyDict, errors |-> EmptyDict, elapsed |-> 0,
     id |-> 0]

\* dict[key] = value, a dict being a function on its keys.
DictSet(d, key, value) ==
    [x \in (DOMAIN d) \cup {key} |-> IF x = key THEN value ELSE d[x]]

\* _safe_search, the try branch: the adapter's search returned `results`.
SafeSearchReturn(rep, name, results) ==
    [caught |-> TRUE,
     report |-> [rep EXCEPT !.source_counts = DictSet(rep.source_counts, name, Len(results))],
     value  |-> results]

\* a _safe_search without its except clause: the exception leaves the task
SafeSearchRaiseUncaught(rep, name, e) ==
    [caught |-> FALSE, report |-> rep, value |-> <<>>]

\* an except clause that also counts the failed source as having returned nothing
SafeSearchRaiseCounted(rep, name, e) ==
    [caught |-> TRUE,
     report |-> [rep EXCEPT !.errors = DictSet(rep.errors, name, e),
                            !.source_counts = DictSet(rep.source_counts, name, 0)],
     value  |-> <<>>]

\* _safe_search, the except branch: the adapter's search raised Exception e.
SafeSearchRaise(rep, name, e) ==
    [caught |-> TRUE,
     report |-> [rep EXCEPT !.errors = DictSet(rep.errors, name, e)],
     value  |-> <<>>]

\* str(e) of the TypeError len(None) raises
NoneTypeError == "object of type 'NoneType' has no len()"

\* _safe_search when adapter.search returned None: len(results) raises TypeError
\* inside the try, before source_counts is written, and the except clause takes it
SafeSearchReturnNone(rep, name) == SafeSearchRaise(rep, name, NoneTypeError)

\* [r for batch in nested for r in batch]
RECURSIVE Flatten(_)
Flatten(batches) ==
    IF batches = <<>> THEN <<>>
    ELSE Head(batches) \o Flatten(Tail(batches))

\* a sort key that forgets the free/unpriced flag
RankKeyTotalOnly(r) == <<TotalPrice(r)>>

\* the sort key of search_all_with_report: (r.price == 0, r.total_price)
RankKey(r) == <<IF r.price = 0 THEN 1 ELSE 0, TotalPrice(r)>>

\* report.results.sort(key=lambda r: (r.price == 0, r.total_price))
RankSort(results) ==
    Values(SortKeyed([i \in 1..Len(results) |-> [k |-> RankKey(results[i]), v |-> results[i]]],
                     FALSE))

\* models.py declares price: float, but a dataclass does not check it.  For a
\* record whose price holds a str, r.total_price (price + (shipping or 0.0))
\* raises TypeError, and so does the key function of the sort.
RankKeyRaises(r) == ~r.price_is_number

\* list.sort computes the key of every element before it compares any; an
\* exception of the key function leaves the sort
RankSortRaises(results) == \E i \in 1..Len(results) : RankKeyRaises(results[i])

\* the merge step of search_all_with_report once gather has returned
MergeReport(rep, batches, elapsed) ==
    [rep EXCEPT !.results = RankSort(Flatten(batches)), !.elapsed = elapsed]

\* ----------------------------------------------- inputs of the aggregator
\* adapter names "A", "B", "C"
NameA == <<65>>
NameB == <<66>>
NameC == <<67>>

\* titles "Dune", "Emma", "Free", "Neg"
TitleDune == <<68, 117, 110, 101>>
TitleEmma == <<69, 109, 109, 97>>
TitleFree == <<70, 114, 101, 101>>
TitleNeg == <<78, 101, 103>>
AuthorX == <<88>>
NoIsbn == <<>>

\* what the adapters can put into a BookResult besides their own name
ItemDune == [title |-> TitleDune, price |-> 5, shipping |-> Some(1), condition |-> "used"]
ItemEmma == [title |-> TitleEmma, price |-> 3, shipping |-> Some(0), condition |-> "used"]
ItemFree == [title |-> TitleFree, price |-> 0, shipping |-> None, condition |-> "unknown"]
ItemNeg == [title |-> TitleNeg, price |-> 0 - 2, shipping |-> None, condition |-> "new"]

\* the offers of each source
Pool(name) ==
    IF name = NameA THEN {ItemDune, ItemEmma}
    ELSE IF name = NameB THEN {ItemEmma, ItemFree}
    ELSE {ItemFree, ItemNeg}

\* BookResult(...) as built by the adapter called `name`; price_is_number: the
\* price field holds a float
BookResult(item, name) ==
    [title |-> item.title, author |-> AuthorX, price |-> item.price,
     shipping |-> item.shipping, condition |-> item.condition, source |-> name,
     isbn |-> NoIsbn, price_is_number |-> TRUE]

\* a record whose price field holds the str "n/a" (the value of price is then
\* never read as a number)
BadPriceResult(name) == [BookResult(ItemDune, name) EXCEPT !.price_is_number = FALSE]

SeqsUpTo(S, n) == UNION {[1..k -> S] : k \in 0..n}

\* the lists adapter `name` may return from search()
Batches(name) == SeqsUpTo({BookResult(item, name) : item \in Pool(name)}, MaxBatch)

\* str(e) of the exceptions an adapter may raise
Errors == {"timeout"}

\* the lists adapter `name` may return that hold a record with a str price
BadBatches(name) ==
    {<<BadPriceResult(name)>>, <<BookResult(ItemEmma, name), BadPriceResult(name)>>}

\* the adapter lists a caller passes
AdapterLists == {<<NameA, NameB, NameC>>, <<NameC, NameA>>, <<NameA, NameA>>}

\* ------------------------------------------------- web state at start-up
WebInit ==
    /\ now = 0
    /\ cache = <<>>
    /\ lastSearch = EmptyDict
    /\ saved = <<>>
    /\ nruns = 0
    /\ resp = [op |-> "none", ip |-> "", status |-> "", key |-> <<>>, hit |-> FALSE,
               report_id |-> 0, elapsed |-> 0]
    /\ granted = EmptyDict
    /\ inflight = {}

\* the config files there may be: the default path, and a path handed in
DefaultConfigPath == "~/.config/bookfinder/config.toml"
TargetPath == "tmp/config.toml"
ConfigPaths == {DefaultConfigPath, TargetPath}

NoFiles == [p \in ConfigPaths |-> None]
NoCommand == [cmd |-> "none"]

\* ------------------- registry, wishlist and command-line state at start-up
LibIdle ==
    /\ custom = <<>>
    /\ wishlist = <<>>
    /\ quotes = <<>>
    /\ deals = <<>>
    /\ files = NoFiles
    /\ cli = NoCommand

\* ------------------------------------- search_all_with_report, step by step
Pending == [state |-> "pending", exc |-> None, value |-> <<>>]

\* values as handed out in the order of their completion
GatherSlotAsCompleted(n, fin, i, value) == [n EXCEPT ![Len(fin) + 1] = value]

\* asyncio.gather returns the values of the tasks in the order of the awaitables
\* passed in: the value of task i is nested[i], whenever it completed (fin: the
\* tasks completed before)
GatherSlot(n, fin, i, value) == [n EXCEPT ![i] = value]

SearchInit ==
    /\ adapters \in AdapterLists
    /\ task = [i \in 1..Len(adapters) |-> Pending]
    /\ nested = [i \in 1..Len(adapters) |-> <<>>]
    /\ report = EmptyReport
    /\ phase = "gather"
    /\ finished = <<>>
    /\ supplied = Some(adapters)
    /\ WebInit
    /\ LibIdle

\* the event loop starts the coroutines of gather in list order; each runs up to
\* its await of adapter.search
TaskStart(i) ==
    /\ phase = "gather"
    /\ task[i].state = "pending"
    /\ \A j \in 1..(i - 1) : task[j].state # "pending"
    /\ task' = [task EXCEPT ![i].state = "running"]
    /\ UNCHANGED <<adapters, nested, report, phase, finished>>
    /\ UNCHANGED <<supplied, webVars, libVars>>

\* adapter.search returned a list
AdapterReturns(i) ==
    /\ phase = "gather"
    /\ task[i].state = "running"
    /\ \E batch \in Batches(adapters[i]) :
         LET o == SafeSearchReturn(report, adapters[i], batch)
         IN  /\ report' = o.report
             /\ nested' = GatherSlot(nested, finished, i, o.value)
             /\ task' = [task EXCEPT ![i].state = "returned", ![i].value = batch]
    /\ finished' = Append(finished, i)
    /\ UNCHANGED <<adapters, phase>>
    /\ UNCHANGED <<supplied, webVars, libVars>>

\* adapter.search raised an Exception
AdapterRaises(i) ==
    /\ phase = "gather"
    /\ task[i].state = "running"
    /\ \E e \in Errors :
         LET o == SafeSearchRaise(report, adapters[i], e)
         IN  IF o.caught
             THEN /\ report' = o.report
                  /\ nested' = GatherSlot(nested, finished, i, o.value)
                  /\ task' = [task EXCEPT ![i].state = "raised", ![i].exc = Some(e)]
                  /\ phase' = phase
             ELSE \* gather re-raises the first exception of a task to the caller
                  /\ task' = [task EXCEPT ![i].state = "raised", ![i].exc = Some(e)]
                  /\ phase' = "failed"
                  /\ UNCHANGED <<report, nested>>
    /\ finished' = Append(finished, i)
    /\ UNCHANGED adapters
    /\ UNCHANGED <<supplied, webVars, libVars>>

\* adapter.search returned None instead of a list
AdapterReturnsNone(i) ==
    /\ phase = "gather"
    /\ task[i].state = "running"
    /\ LET o == SafeSearchReturnNone(report, adapters[i])
       IN  /\ report' = o.report
           /\ nested' = GatherSlot(nested, finished, i, o.value)
           /\ task' = [task EXCEPT ![i].state = "returned_none"]
    /\ finished' = Append(finished, i)
    /\ UNCHANGED <<adapters, phase>>
    /\ UNCHANGED <<supplied, webVars, libVars>>

\* adapter.search returned a list holding a record whose price is a str
AdapterReturnsBadPrice(i) ==
    /\ phase = "gather"
    /\ task[i].state = "running"
    /\ \E batch \in BadBatches(adapters[i]) :
         LET o == SafeSearchReturn(report, adapters[i], batch)
         IN  /\ report' = o.report
             /\ nested' = GatherSlot(nested, finished, i, o.value)
             /\ task' = [task EXCEPT ![i].state = "returned_bad", ![i].value = batch]
    /\ finished' = Append(finished, i)
    /\ UNCHANGED <<adapters, phase>>
    /\ UNCHANGED <<supplied, webVars, libVars>>

\* a wait that ends with the first task completed
GatherReadyFirst == \E i \in 1..Len(adapters) : task[i].state \notin {"pending", "running"}

\* a wait that gives up on one straggler
GatherReadyButLast ==
    Cardinality({i \in 1..Len(adapters) : task[i].state \in {"pending", "running"}}) <= 1

\* await asyncio.gather(*tasks) returns once every task has completed
GatherReady == \A i \in 1..Len(adapters) : task[i].state \notin {"pending", "running"}

\* gather has every task's value: merge, sort, stamp the elapsed time, return;
\* an exception of the sort leaves search_all_with_report
GatherDone ==
    /\ phase = "gather"
    /\ GatherReady
    /\ IF RankSortRaises(Flatten(nested))
       THEN /\ report' = [report EXCEPT !.results = Flatten(nested)]
            /\ phase' = "failed"
       ELSE /\ \E e \in 0..MaxElapsed : report' = MergeReport(report, nested, e)
            /\ phase' = "done"
    /\ UNCHANGED <<adapters, task, nested, finished>>
    /\ UNCHANGED <<supplied, webVars, libVars>>

SearchNext ==
    \/ \E i \in 1..Len(adapters) : TaskStart(i)
    \/ \E i \in 1..Len(adapters) : AdapterReturns(i)
    \/ \E i \in 1..Len(adapters) : AdapterRaises(i)
    \/ GatherDone

SpecSearch == SearchInit /\ [][SearchNext]_vars

\* the event loop resumes search_all_with_report once gather has every value;
\* whether and when an adapter's search completes is up to the adapter
\* (Resume: the step of GatherDone that returns the report)
Resume == phase = "gather" /\ GatherReady /\ phase' = "done"

SpecSearchLive == SpecSearch /\ WF_phase(Resume)

\* the same call with adapters that may also return invalid data
InvalidNext ==
    \/ SearchNext
    \/ \E i \in 1..Len(adapters) : AdapterReturnsNone(i)
    \/ \E i \in 1..Len(adapters) : AdapterReturnsBadPrice(i)

SpecInvalid == SearchInit /\ [][InvalidNext]_vars

\* search_all_with_report run to completion with the adapters finishing in list
\* order: outcome[i] is what adapters[i].search does, [ok |-> TRUE, batch |-> list]
\* or [ok |-> FALSE, err |-> str(e)].  failed: an exception left the call.
RECURSIVE RunTasks(_, _, _, _, _)
RunTasks(rep, batches, list, outcome, i) ==
    IF i > Len(list) THEN [failed |-> FALSE, report |-> rep, nested |-> batches]
    ELSE LET o == IF outcome[i].ok
                  THEN SafeSearchReturn(rep, list[i], outcome[i].batch)
                  ELSE SafeSearchRaise(rep, list[i], outcome[i].err)
         IN  IF o.caught
             THEN RunTasks(o.report, Append(batches, o.value), list, outcome, i + 1)
             ELSE [failed |-> TRUE, report |-> rep, nested |-> batches]

SearchAllWithReport(list, outcome, elapsed) ==
    LET run == RunTasks(EmptyReport, <<>>, list, outcome, 1)
    IN  IF run.failed \/ RankSortRaises(Flatten(run.nested))
        THEN [failed |-> TRUE, report |-> run.report]
        ELSE [failed |-> FALSE, report |-> MergeReport(run.report, run.nested, elapsed)]

\* ================================================================= web.py
CACHE_TTL_SECONDS == 300
CACHE_MAX_ITEMS == 50
RATE_LIMIT_SECONDS == 5

\* str.lower() on ASCII text
Lower(s) == [i \in 1..Len(s) |-> IF s[i] \in 65..90 THEN s[i] + 32 ELSE s[i]]

\* needle in hay
Contains(hay, needle) ==
    \E i \in 0..(Len(hay) - Len(needle)) : SubSeq(hay, i + 1, i + Len(needle)) = needle

\* not query or not query.strip()
IsBlank(query) == \A i \in 1..Len(query) : query[i] \in {9, 10, 11, 12, 13, 32}

\* _apply_filters: every branch taken builds a new list; with no branch taken the
\* list returned is the list passed in (same |-> TRUE).
\* f: [filter_text, min_price, max_price, condition, sources]
ApplyFilters(results, f, isbn_only, isbn_query) ==
    LET r1 == IF f.filter_text # <<>>
              THEN SelectSeq(results,
                     LAMBDA r : Contains(Lower(r.title \o <<32>> \o r.author \o <<32>> \o r.source),
                                         Lower(f.filter_text)))
              ELSE results
        r2 == IF f.min_price # None
              THEN SelectSeq(r1, LAMBDA r : TotalPrice(r) >= f.min_price[1])
              ELSE r1
        r3 == IF f.max_price # None
              THEN SelectSeq(r2, LAMBDA r : TotalPrice(r) <= f.max_price[1])
              ELSE r2
        r4 == IF f.condition # ""
              THEN SelectSeq(r3, LAMBDA r : r.condition = f.condition)
              ELSE r3
        r5 == IF f.sources # <<>>
              THEN SelectSeq(r4, LAMBDA r : \E k \in 1..Len(f.sources) : f.sources[k] = r.source)
              ELSE r4
        r6 == IF isbn_only /\ isbn_query # <<>>
              THEN SelectSeq(r5, LAMBDA r : r.isbn = isbn_query)
              ELSE r5
    IN  [list |-> r6,
         same |-> /\ f.filter_text = <<>> /\ f.min_price = None /\ f.max_price = None
                  /\ f.condition = "" /\ f.sources = <<>>
                  /\ ~(isbn_only /\ isbn_query # <<>>)]

SortKeyFor(r, sort_by) ==
    IF sort_by \in {"title-asc", "title-desc"} THEN r.title
    ELSE IF sort_by \in {"source-asc", "source-desc"} THEN r.source
    ELSE <<TotalPrice(r)>>

\* _apply_sort: results.sort(...) in place (the value of the list afterwards)
ApplySort(results, sort_by) ==
    Values(SortKeyed([i \in 1..Len(results) |->
                        [k |-> SortKeyFor(results[i], sort_by), v |-> results[i]]],
                     sort_by \in {"price-desc", "title-desc", "source-desc"}))

\* ---- the rate limiter of search_get
\* a limiter that checks without recording the time of the request it allows
RateLimitCheckOnly(ls, ip, t) ==
    LET read == IF ip \in DOMAIN ls THEN ls ELSE DictSet(ls, ip, 0)
    IN  [allowed |-> ~(t - read[ip] < RATE_LIMIT_SECONDS), lastSearch |-> read]

\* a limiter that records the time of every request, denied ones too
RateLimitStampAlways(ls, ip, t) ==
    LET read == IF ip \in DOMAIN ls THEN ls ELSE DictSet(ls, ip, 0)
    IN  [allowed |-> ~(t - read[ip] < RATE_LIMIT_SECONDS), lastSearch |-> DictSet(read, ip, t)]

\* _LAST_SEARCH is a defaultdict(float): reading a missing key stores 0.0 under it.
\* Deny when now - _LAST_SEARCH[client_ip] < _RATE_LIMIT_SECONDS; else record now.
RateLimit(ls, ip, t) ==
    LET read == IF ip \in DOMAIN ls THEN ls ELSE DictSet(ls, ip, 0)
    IN  IF t - read[ip] < RATE_LIMIT_SECONDS
        THEN [allowed |-> FALSE, lastSearch |-> read]
        ELSE [allowed |-> TRUE, lastSearch |-> DictSet(read, ip, t)]

\* ---- _CACHE and _cached_search
\* a lookup that compares the query string only
CacheIndexByQuery(c, key) ==
    IF \E i \in 1..Len(c) : c[i].key[1] = key[1]
    THEN CHOOSE i \in 1..Len(c) : c[i].key[1] = key[1]
    ELSE 0

\* _CACHE.get(key): the entry of the key (query, max_results, isbn_only)
CacheIndex(c, key) ==
    IF \E i \in 1..Len(c) : c[i].key = key
    THEN CHOOSE i \in 1..Len(c) : c[i].key = key
    ELSE 0

\* a freshness test that still serves an entry aged exactly the TTL
CacheFreshInclusive(c, key, t) ==
    /\ CacheIndex(c, key) # 0
    /\ t - c[CacheIndex(c, key)].created_at <= CACHE_TTL_SECONDS

\* cached and now - cached[0] < _CACHE_TTL_SECONDS
CacheFresh(c, key, t) ==
    /\ CacheIndex(c, key) # 0
    /\ t - c[CacheIndex(c, key)].created_at < CACHE_TTL_SECONDS

\* a store that adds the pair without looking for the key
CachePutAppend(c, key, t, rep) ==
    Append(c, [key |-> key, created_at |-> t, report |-> rep])

\* _CACHE[key] = (now, report): an existing key keeps its place in the dict
CachePut(c, key, t, rep) ==
    LET e == [key |-> key, created_at |-> t, report |-> rep]
    IN  IF CacheIndex(c, key) # 0 THEN [c EXCEPT ![CacheIndex(c, key)] = e]
        ELSE Append(c, e)

\* an eviction that picks the newest entry (max instead of min)
NewestIndex(c) ==
    Min({i \in 1..Len(c) : \A j \in 1..Len(c) : c[i].created_at >= c[j].created_at})

\* min(_CACHE, key=lambda k: _CACHE[k][0]): the first of the oldest entries
OldestIndex(c) ==
    Min({i \in 1..Len(c) : \A j \in 1..Len(c) : c[i].created_at <= c[j].created_at})

\* if len(_CACHE) > _CACHE_MAX_ITEMS: pop the oldest key
CacheEvict(c) ==
    IF Len(c) > CACHE_MAX_ITEMS
    THEN SubSeq(c, 1, OldestIndex(c) - 1) \o SubSeq(c, OldestIndex(c) + 1, Len(c))
    ELSE c

\* get_all_adapters(): the adapters the web process searches
RegisteredAdapters == <<NameA, NameB, NameC>>

\* a _cached_search that stores what the run left behind before the exception
\* goes on to the caller
CachedSearchStoreOnFailure(c, key, t, outcome, elapsed, id) ==
    IF CacheFresh(c, key, t)
    THEN [hit |-> TRUE, failed |-> FALSE, report |-> c[CacheIndex(c, key)].report, cache |-> c]
    ELSE LET run == SearchAllWithReport(RegisteredAdapters, outcome, elapsed)
             rep == [run.report EXCEPT !.id = id]
         IN  [hit |-> FALSE, failed |-> run.failed, report |-> rep,
              cache |-> CacheEvict(CachePut(c, key, t, rep))]

\* a _cached_search that keeps a report out of the cache when a source failed
CachedSearchSkipFailures(c, key, t, outcome, elapsed, id) ==
    IF CacheFresh(c, key, t)
    THEN [hit |-> TRUE, failed |-> FALSE, report |-> c[CacheIndex(c, key)].report, cache |-> c]
    ELSE LET run == SearchAllWithReport(RegisteredAdapters, outcome, elapsed)
             rep == [run.report EXCEPT !.id = id]
         IN  IF run.failed
             THEN [hit |-> FALSE, failed |-> TRUE, report |-> rep, cache |-> c]
             ELSE [hit |-> FALSE, failed |-> FALSE, report |-> rep,
                   cache |-> IF DOMAIN rep.errors = {} THEN CacheEvict(CachePut(c, key, t, rep))
                             ELSE c]

\* _cached_search(query, max_results, isbn_only) called at time t, the aggregator
\* (if it runs) behaving as `outcome` and taking `elapsed`; id: the identity of the
\* report a run would build.
CachedSearch(c, key, t, outcome, elapsed, id) ==
    IF CacheFresh(c, key, t)
    THEN [hit |-> TRUE, failed |-> FALSE, report |-> c[CacheIndex(c, key)].report, cache |-> c]
    ELSE LET run == SearchAllWithReport(RegisteredAdapters, outcome, elapsed)
             rep == [run.report EXCEPT !.id = id]
         IN  IF run.failed
             THEN [hit |-> FALSE, failed |-> TRUE, report |-> rep, cache |-> c]
             ELSE [hit |-> FALSE, failed |-> FALSE, report |-> rep,
                   cache |-> CacheEvict(CachePut(c, key, t, rep))]

\* the effect on _CACHE of sorting, in place, the results list of report `id`
SortedInPlace(c, id, sorted) ==
    [i \in 1..Len(c) |->
        IF c[i].report.id = id THEN [c[i] EXCEPT !.report.results = sorted] ELSE c[i]]

\* ------------------------------------------------ inputs of the web process
MaxWindows == 2        \* rate-limit windows after which the clock is still read
MaxRuns == 2           \* aggregator runs of the web process
MaxSaved == 1          \* rows of the saved_searches table

\* instants at which the clock is read: 0, and the last instant inside and the
\* first instant outside each of the first rate-limit windows
RateTimes == {0} \cup {w * RATE_LIMIT_SECONDS - e : w \in 1..MaxWindows, e \in 0..1}

\* instants at which the clock is read: 0, the end of the first rate-limit window,
\* and the last instant before and the instant of the expiry of an entry cached
\* then
CacheTimes ==
    {0, RATE_LIMIT_SECONDS}
    \cup {CACHE_TTL_SECONDS + RATE_LIMIT_SECONDS - e : e \in 0..1}

IPs == {"10.0.0.1", "10.0.0.2"}

\* queries "" and "dune"
QueryEmpty == <<>>
QueryDune == <<100, 117, 110, 101>>
Queries == {QueryEmpty, QueryDune}
MaxResultsChoices == {5}

SortBys == {"price-asc", "title-desc"}

NoFilter ==
    [filter_text |-> <<>>, min_price |-> None, max_price |-> None, condition |-> "",
     sources |-> <<>>]
Filters == {NoFilter, [NoFilter EXCEPT !.filter_text = <<68, 85>>]}

\* what the registered adapters do in one run: the scenario of the ranking test
OutcomeRanked ==
    << [ok |-> TRUE, batch |-> <<BookResult(ItemDune, NameA)>>],
       [ok |-> TRUE, batch |-> <<BookResult(ItemEmma, NameB)>>],
       [ok |-> TRUE, batch |-> <<BookResult(ItemFree, NameC)>>] >>

\* the second adapter returning a record whose price is a str: the sort of the
\* run raises
OutcomeBadPrice ==
    << [ok |-> TRUE, batch |-> <<BookResult(ItemDune, NameA)>>],
       [ok |-> TRUE, batch |-> <<BadPriceResult(NameB)>>],
       [ok |-> FALSE, err |-> "timeout"] >>

\* every adapter failing
OutcomeAllFail ==
    << [ok |-> FALSE, err |-> "timeout"], [ok |-> FALSE, err |-> "timeout"],
       [ok |-> FALSE, err |-> "timeout"] >>

\* the params row POST /save-search stores
SavedDune ==
    [query |-> QueryDune, max_results |-> 5, sort_by |-> "title-desc", filter |-> NoFilter,
     isbn_only |-> FALSE]

\* the response to a request: status "no_query" | "rate_limited" | "not_found" |
\* "ok" | "error" | "redirect"; hit: the report came from the cache; report_id,
\* elapsed: the report rendered
Response(op, ip, status, key, hit, rep) ==
    [op |-> op, ip |-> ip, status |-> status, key |-> key, hit |-> hit,
     report_id |-> rep.id, elapsed |-> rep.elapsed]

NoKey == <<>>

\* ---------------------------------------------------------- web handlers
\* the part shared by search_get and saved_search after the report is there:
\* filter, sort (in place when no filter copied the list), render
FilterSortRender(op, ip, key, cs, f, isbn_only, query, sort_by) ==
    LET filtered == ApplyFilters(cs.report.results, f, isbn_only, query)
        sorted == ApplySort(filtered.list, sort_by)
    IN  /\ cache' = IF filtered.same THEN SortedInPlace(cs.cache, cs.report.id, sorted)
                    ELSE cs.cache
        /\ resp' = Response(op, ip, "ok", key, cs.hit, cs.report)

\* _cached_search called now: the adapters are consulted (one of `outcomes`, the
\* run taking one of `durations`) only when the lookup misses
CachedSearchCalls(key, outcomes, durations) ==
    IF CacheFresh(cache, key, now)
    THEN {CachedSearch(cache, key, now, <<>>, 0, nruns + 1)}
    ELSE {CachedSearch(cache, key, now, o, e, nruns + 1) : o \in outcomes, e \in durations}

\* an aggregator run of the web process is the shortest or the longest
Durations == {0, MaxElapsed}

\* GET /search
SearchGet(ip, query, max_results, isbn_only, sort_by, f, outcomes) ==
    LET key == <<query, max_results, isbn_only>>
        rl == RateLimit(lastSearch, ip, now)
    IN  /\ UNCHANGED <<now, saved>>
        /\ UNCHANGED <<inflight, aggVars, libVars>>
        /\ IF IsBlank(query)
           THEN /\ resp' = Response("search", ip, "no_query", NoKey, FALSE, EmptyReport)
                /\ UNCHANGED <<cache, lastSearch, nruns, granted>>
           ELSE IF ~rl.allowed
           THEN /\ lastSearch' = rl.lastSearch
                /\ resp' = Response("search", ip, "rate_limited", NoKey, FALSE, EmptyReport)
                /\ UNCHANGED <<cache, nruns, granted>>
           ELSE /\ lastSearch' = rl.lastSearch
                /\ granted' = DictSet(granted, ip, now)
                /\ CacheFresh(cache, key, now) \/ nruns < MaxRuns
                /\ \E cs \in CachedSearchCalls(key, outcomes, Durations) :
                     /\ nruns' = IF cs.hit THEN nruns ELSE nruns + 1
                     /\ IF cs.failed
                        THEN /\ cache' = cs.cache
                             /\ resp' = Response("search", ip, "error", key, FALSE, EmptyReport)
                        ELSE FilterSortRender("search", ip, key, cs, f, isbn_only, query,
                                              sort_by)

\* POST /save-search
SaveSearch(ip, params) ==
    /\ Len(saved) < MaxSaved
    /\ saved' = Append(saved, params)
    /\ resp' = Response("save-search", ip, "redirect", NoKey, FALSE, EmptyReport)
    /\ UNCHANGED <<now, cache, lastSearch, nruns, granted>>
    /\ UNCHANGED <<inflight, aggVars, libVars>>

\* GET /saved?id=...
SavedSearch(ip, id, outcomes) ==
    /\ UNCHANGED <<now, saved, lastSearch, granted>>
    /\ UNCHANGED <<inflight, aggVars, libVars>>
    /\ IF id \notin 1..Len(saved)
       THEN /\ resp' = Response("saved", ip, "not_found", NoKey, FALSE, EmptyReport)
            /\ UNCHANGED <<cache, nruns>>
       ELSE LET p == saved[id]
                key == <<p.query, p.max_results, p.isbn_only>>
            IN  /\ CacheFresh(cache, key, now) \/ nruns < MaxRuns
                /\ \E cs \in CachedSearchCalls(key, outcomes, Durations) :
                     /\ nruns' = IF cs.hit THEN nruns ELSE nruns + 1
                     /\ IF cs.failed
                        THEN /\ cache' = cs.cache
                             /\ resp' = Response("saved", ip, "error", key, FALSE, EmptyReport)
                        ELSE FilterSortRender("saved", ip, key, cs, p.filter, p.isbn_only,
                                              p.query, p.sort_by)

\* GET /export: the SearchReport itself, not its results list, is handed to
\* _apply_filters and _apply_sort; a filter branch iterates it (TypeError), and
\* with no branch taken _apply_sort calls .sort on it (AttributeError).  Either
\* way the request ends in an error after _cached_search has returned.
Export(ip, query, max_results, isbn_only, sort_by, f, outcomes) ==
    LET key == <<query, max_results, isbn_only>>
    IN  /\ UNCHANGED <<now, saved, lastSearch, granted>>
        /\ UNCHANGED <<inflight, aggVars, libVars>>
        /\ CacheFresh(cache, key, now) \/ nruns < MaxRuns
        /\ \E cs \in CachedSearchCalls(key, outcomes, Durations) :
             /\ nruns' = IF cs.hit THEN nruns ELSE nruns + 1
             /\ cache' = cs.cache
             /\ resp' = IF cs.failed
                        THEN Response("export", ip, "error", key, FALSE, EmptyReport)
                        ELSE Response("export", ip, "error", key, cs.hit, cs.report)

\* the clock moves on
Tick(times) ==
    /\ \E t \in times : t > now /\ now' = t
    /\ UNCHANGED <<cache, lastSearch, saved, nruns, resp, granted>>
    /\ UNCHANGED <<inflight, aggVars, libVars>>

AggIdle ==
    /\ adapters = <<>>
    /\ task = <<>>
    /\ nested = <<>>
    /\ report = EmptyReport
    /\ phase = "idle"
    /\ finished = <<>>
    /\ supplied = None

Init == WebInit /\ AggIdle /\ LibIdle

\* the requests of a set of clients over sets of request parameters, the clock
\* being read at `times` and the adapters behaving as one of `outcomes`
Requests(times, ips, queries, flags, sorts, filters, params, outcomes) ==
    \/ Tick(times)
    \/ \E ip \in ips, q \in queries, m \in MaxResultsChoices, b \in flags,
          sb \in sorts, f \in filters : SearchGet(ip, q, m, b, sb, f, outcomes)
    \/ \E ip \in ips, p \in params : SaveSearch(ip, p)
    \/ \E ip \in ips, id \in 1..MaxSaved : SavedSearch(ip, id, outcomes)
    \/ \E ip \in ips, q \in queries, m \in MaxResultsChoices, b \in flags,
          sb \in sorts, f \in filters : Export(ip, q, m, b, sb, f, outcomes)

\* one client, every sort order and filter, the clock read around the expiry of
\* a cache entry
Next ==
    Requests(CacheTimes, {"10.0.0.1"}, Queries, {FALSE}, SortBys, Filters, {SavedDune},
             {OutcomeRanked})

Spec == Init /\ [][Next]_vars

\* two clients asking for one query, the clock read around the rate-limit windows
RateNext ==
    Requests(RateTimes, IPs, {QueryDune}, {FALSE}, {"price-asc"}, {NoFilter}, {SavedDune},
             {OutcomeAllFail})

SpecRate == Init /\ [][RateNext]_vars

\* one client asking for one query, the adapters behaving well or returning a
\* record that makes the run raise, the clock read around the expiry of an entry
FailNext ==
    Requests(CacheTimes, {"10.0.0.1"}, {QueryDune}, {FALSE}, {"price-asc"}, {NoFilter},
             {SavedDune}, {OutcomeRanked, OutcomeBadPrice})

SpecFail == Init /\ [][FailNext]_vars

\* ------------------------------------------------ lookups under several keys
MaxKeyRuns == 3        \* aggregator runs made for the lookups

\* the query strings "dune" and "978", asked for with two result limits, as free
\* text and as an identifier
Query978 == <<57, 55, 56>>
KeyQueries == {QueryDune, Query978}
KeyLimits == {5, 10}

\* instants at which the clock is read: 0 and the expiry of an entry cached then
KeyTimes == {0, CACHE_TTL_SECONDS}

\* _cached_search(query, max_results, isbn_only) called directly
LookupCall(query, max_results, isbn_only) ==
    LET key == <<query, max_results, isbn_only>>
    IN  /\ CacheFresh(cache, key, now) \/ nruns < MaxKeyRuns
        /\ \E cs \in CachedSearchCalls(key, {OutcomeRanked}, {0}) :
             /\ nruns' = IF cs.hit THEN nruns ELSE nruns + 1
             /\ cache' = cs.cache
             /\ resp' = Response("cached_search", "", "ok", key, cs.hit, cs.report)
        /\ UNCHANGED <<now, lastSearch, saved, granted>>
        /\ UNCHANGED <<inflight, aggVars, libVars>>

KeysNext ==
    \/ Tick(KeyTimes)
    \/ \E q \in KeyQueries, m \in KeyLimits, b \in BOOLEAN : LookupCall(q, m, b)

SpecKeys == Init /\ [][KeysNext]_vars

\* ---------------------------------------- filling the cache beyond its capacity
MaxStart == 1          \* latest instant of the first call
MaxExtraKeys == 2      \* distinct keys beyond the capacity of the cache
MaxExtraTime == 3      \* instants beyond the one of the call that fills the cache
MaxReask == 2          \* the first MaxReask keys are asked for again and again

\* distinct keys: one query, asked with max_results = n
FillKey(n) == <<QueryDune, n, FALSE>>

Max(S) == CHOOSE x \in S : \A y \in S : x >= y

\* _cached_search(query, n, False) called directly, one call after the other.  A
\* call that inserts is made at a later instant than every insertion before it
\* (strictly increasing created_at); the keys are first asked for in the order
\* of n, and the first keys are asked for again, cached or evicted.
FillCall(n) ==
    LET key == FillKey(n)
        asked == {0} \cup {cache[i].key[2] : i \in 1..Len(cache)}
    IN  /\ n = Max(asked) + 1 \/ (n <= MaxReask /\ n <= Max(asked))
        /\ CacheFresh(cache, key, now) \/ \A i \in 1..Len(cache) : cache[i].created_at < now
        /\ \E cs \in CachedSearchCalls(key, {OutcomeAllFail}, {0}) :
             /\ nruns' = IF cs.hit THEN nruns ELSE nruns + 1
             /\ cache' = cs.cache
             /\ resp' = Response("cached_search", "", "ok", key, cs.hit, cs.report)
        /\ UNCHANGED <<now, lastSearch, saved, granted>>
        /\ UNCHANGED <<inflight, aggVars, libVars>>

\* the clock moves on to the next instant once the call of this instant is made
FillTick ==
    /\ now < MaxStart + CACHE_MAX_ITEMS + MaxExtraTime
    /\ \/ \E i \in 1..Len(cache) : cache[i].created_at = now
       \/ \E r \in inflight : r.started = now
    /\ now' = now + 1
    /\ UNCHANGED <<cache, lastSearch, saved, nruns, resp, granted>>
    /\ UNCHANGED <<inflight, aggVars, libVars>>

EvictInit ==
    /\ now \in 0..MaxStart
    /\ cache = <<>>
    /\ lastSearch = EmptyDict
    /\ saved = <<>>
    /\ nruns = 0
    /\ resp = [op |-> "none", ip |-> "", status |-> "", key |-> <<>>, hit |-> FALSE,
               report_id |-> 0, elapsed |-> 0]
    /\ granted = EmptyDict
    /\ inflight = {}
    /\ AggIdle
    /\ LibIdle

EvictNext ==
    \/ FillTick
    \/ \E n \in 1..(CACHE_MAX_ITEMS + MaxExtraKeys) : FillCall(n)

SpecEvict == EvictInit /\ [][EvictNext]_vars

\* ------------------------------------------- _cached_search calls that overlap
\* _cached_search runs without interruption up to `await search_all_with_report`
\* (key, now and the lookup are before it) and again from the store to the
\* return; other requests run while it is suspended there.
MaxShortRun == 1       \* longest run that ends before the cache has filled up

\* how long the run of a suspended lookup takes: a few instants, or as long as it
\* takes the other calls to fill the cache
SlowRunEnds(started) ==
    now - started <= MaxShortRun \/ now - started >= CACHE_MAX_ITEMS

\* a lookup suspended in the await: the key and the `now` it read before, the
\* request it serves, and the identity of the report its run builds
Suspended(op, ip, key, started, id, query, sort_by, f) ==
    [op |-> op, ip |-> ip, key |-> key, started |-> started, id |-> id, query |-> query,
     sort_by |-> sort_by, f |-> f]

\* the rest of _cached_search once the run has ended: _CACHE[key] = (now, report)
\* with the `now` read before the await, one eviction, return
CachedSearchResume(c, key, started, outcome, elapsed, id) ==
    LET run == SearchAllWithReport(RegisteredAdapters, outcome, elapsed)
        rep == [run.report EXCEPT !.id = id]
    IN  IF run.failed
        THEN [hit |-> FALSE, failed |-> TRUE, report |-> rep, cache |-> c]
        ELSE [hit |-> FALSE, failed |-> FALSE, report |-> rep,
              cache |-> CacheEvict(CachePut(c, key, started, rep))]

\* _cached_search(query, n, False) called directly while the cache is still
\* empty: it misses and is suspended (one such lookup, the calls of FillCall
\* returning at once)
LookupBegin(n) ==
    LET key == FillKey(n)
    IN  /\ inflight = {}
        /\ cache = <<>>
        /\ inflight' = inflight \cup
             {Suspended("cached_search", "", key, now, nruns + 1, QueryDune, "", NoFilter)}
        /\ nruns' = nruns + 1
        /\ UNCHANGED <<now, cache, lastSearch, saved, resp, granted>>
        /\ UNCHANGED <<aggVars, libVars>>

\* the run of a suspended lookup ends; the lookup stores, evicts and returns
LookupEnd(r) ==
    LET cs == CachedSearchResume(cache, r.key, r.started, OutcomeAllFail, 0, r.id)
    IN  /\ r.op = "cached_search"
        /\ SlowRunEnds(r.started)
        /\ inflight' = inflight \ {r}
        /\ cache' = cs.cache
        /\ resp' = Response("cached_search", "", "ok", r.key, FALSE, cs.report)
        /\ UNCHANGED <<now, lastSearch, saved, nruns, granted>>
        /\ UNCHANGED <<aggVars, libVars>>

\* the cache filled beyond its capacity by calls that return at once, each for
\* a key beyond the ones cached, while a lookup for one of the first keys,
\* started first, stays suspended
OverlapNext ==
    \/ FillTick
    \/ \E n \in 1..(CACHE_MAX_ITEMS + MaxExtraKeys) :
         (\A i \in 1..Len(cache) : cache[i].key[2] < n) /\ FillCall(n)
    \/ \E n \in 1..MaxReask : LookupBegin(n)
    \/ \E r \in inflight : LookupEnd(r)

SpecOverlap == Init /\ [][OverlapNext]_vars

\* ------------------------------------------------ /search requests that overlap
\* GET /search up to the await inside _cached_search: the blank check, the rate
\* limiter (check and write), the lookup; a hit is rendered at once
SearchBegin(ip, query, max_results, isbn_only, sort_by, f) ==
    LET key == <<query, max_results, isbn_only>>
        rl == RateLimit(lastSearch, ip, now)
    IN  /\ UNCHANGED <<now, saved>>
        /\ UNCHANGED <<aggVars, libVars>>
        /\ IF IsBlank(query)
           THEN /\ resp' = Response("search", ip, "no_query", NoKey, FALSE, EmptyReport)
                /\ UNCHANGED <<cache, lastSearch, nruns, granted, inflight>>
           ELSE IF ~rl.allowed
           THEN /\ lastSearch' = rl.lastSearch
                /\ resp' = Response("search", ip, "rate_limited", NoKey, FALSE, EmptyReport)
                /\ UNCHANGED <<cache, nruns, granted, inflight>>
           ELSE /\ lastSearch' = rl.lastSearch
                /\ granted' = DictSet(granted, ip, now)
                /\ IF CacheFresh(cache, key, now)
                   THEN /\ FilterSortRender("search", ip, key,
                                            CachedSearch(cache, key, now, <<>>, 0, nruns + 1),
                                            f, isbn_only, query, sort_by)
                        /\ UNCHANGED <<nruns, inflight>>
                   ELSE /\ nruns < MaxRuns
                        /\ inflight' = inflight \cup
                             {Suspended("search", ip, key, now, nruns + 1, query, sort_by, f)}
                        /\ nruns' = nruns + 1
                        /\ UNCHANGED <<cache, resp>>

\* the run of a suspended /search ends: store, evict, filter, sort, render
SearchEnd(r, outcomes) ==
    /\ r.op = "search"
    /\ inflight' = inflight \ {r}
    /\ \E o \in outcomes, e \in Durations :
         LET cs == CachedSearchResume(cache, r.key, r.started, o, e, r.id)
         IN  IF cs.failed
             THEN /\ cache' = cs.cache
                  /\ resp' = Response("search", r.ip, "error", r.key, FALSE, EmptyReport)
             ELSE FilterSortRender("search", r.ip, r.key, cs, r.f, r.key[3], r.query,
                                   r.sort_by)
    /\ UNCHANGED <<now, lastSearch, saved, nruns, granted>>
    /\ UNCHANGED <<aggVars, libVars>>

\* two clients asking for one query, requests arriving while others are suspended
ConcNext ==
    \/ Tick(RateTimes)
    \/ \E ip \in IPs, q \in Queries : SearchBegin(ip, q, 5, FALSE, "price-asc", NoFilter)
    \/ \E r \in inflight : SearchEnd(r, {OutcomeRanked})

SpecConc == Init /\ [][ConcNext]_vars

\* ================================================== adapters/registry.py
MaxCustom == 4         \* adapters registered at runtime

\* _BUILTIN_ADAPTERS: the names of the built-in adapters (the web process
\* registers nothing else)
BuiltinAdapters == RegisteredAdapters

\* names of custom sites, "S" and "T"
NameS == <<83>>
NameT == <<84>>

\* the names a caller may register: new ones, and one a built-in adapter has
RegistrableNames == {NameS, NameT, NameA}

\* config.custom_sites (the names of the sites) as load_config() may return it
ConfigSites == {<<NameS>>, <<NameS, NameT>>}

\* get_all_adapters(): _BUILTIN_ADAPTERS + _custom_adapters
GetAllAdapters(c) == BuiltinAdapters \o c

\* register_adapter(adapter)
RegisterAdapter(name) ==
    /\ Len(custom) < MaxCustom
    /\ custom' = Append(custom, name)
    /\ UNCHANGED <<wishlist, quotes, deals>>
    /\ UNCHANGED <<files, cli, aggVars, webVars>>

\* register_generic(name, base_url, search_url_template): a GenericAdapter of
\* that name is appended
RegisterGeneric(name) ==
    /\ Len(custom) < MaxCustom
    /\ custom' = Append(custom, name)
    /\ UNCHANGED <<wishlist, quotes, deals>>
    /\ UNCHANGED <<files, cli, aggVars, webVars>>

\* one invocation of the CLI group main: _setup_custom_sites() registers every
\* site of the config
Main(sites) ==
    /\ Len(custom) + Len(sites) <= MaxCustom
    /\ custom' = custom \o sites
    /\ UNCHANGED <<wishlist, quotes, deals>>
    /\ UNCHANGED <<files, cli, aggVars, webVars>>

RegistryNext ==
    \/ \E name \in RegistrableNames : RegisterAdapter(name)
    \/ \E name \in RegistrableNames : RegisterGeneric(name)
    \/ \E sites \in ConfigSites : Main(sites)

SpecRegistry == Init /\ [][RegistryNext]_vars

\* ------------------------------- the `adapters` argument of search_all[_with_report]
\* adapters = adapters or get_all_adapters(): None and the empty list are both
\* falsy, so either is replaced by the registry (c: _custom_adapters)
EffectiveAdapters(arg, c) ==
    IF arg = None \/ arg[1] = <<>> THEN GetAllAdapters(c) ELSE arg[1]

\* what a caller passes as `adapters`: nothing, an empty list, a subset
SuppliedLists == {None, Some(<<>>), Some(<<NameC, NameA>>), Some(<<NameB>>)}

\* search_all_with_report(query, adapters) called
SuppliedInit ==
    /\ supplied \in SuppliedLists
    /\ adapters = EffectiveAdapters(supplied, <<>>)
    /\ task = [i \in 1..Len(adapters) |-> Pending]
    /\ nested = [i \in 1..Len(adapters) |-> <<>>]
    /\ report = EmptyReport
    /\ phase = "gather"
    /\ finished = <<>>
    /\ WebInit
    /\ LibIdle

SpecSupplied == SuppliedInit /\ [][SearchNext]_vars

\* ================================================================ config.py
\* contents of a config file: text (what the file holds) and sites (the [[sites]]
\* tables load_config finds in it).  The text written when there is no example
\* file, the example file, and files written by the user:
ContentFallback == [text |-> "# BookPriceFinder configuration", sites |-> <<>>]
ContentExample == [text |-> "config.example.toml", sites |-> <<>>]
ContentEUR == [text |-> "currency = 'EUR'", sites |-> <<>>]
ContentSites(sites) == [text |-> "user sites", sites |-> sites]
UserContents == {ContentEUR} \cup {ContentSites(sites) : sites \in ConfigSites}

\* _EXAMPLE_CONFIG: there or not
ExampleFiles == {None, Some(ContentExample)}

\* load_config().custom_sites: the sites of the file at the default path, none
\* when there is no such file
LoadConfigSites(fs) ==
    IF fs[DefaultConfigPath] = None THEN <<>> ELSE fs[DefaultConfigPath][1].sites

\* a writer that does not look for an existing file
WriteDefaultConfigAlways(fs, path, force, example) ==
    LET p == IF path = None THEN DefaultConfigPath ELSE path[1]
        content == IF example # None THEN example[1] ELSE ContentFallback
    IN  [files |-> [fs EXCEPT ![p] = Some(content)], path |-> p]

\* write_default_config(path, force), example: the file _EXAMPLE_CONFIG
WriteDefaultConfig(fs, path, force, example) ==
    LET p == IF path = None THEN DefaultConfigPath ELSE path[1]
        content == IF example # None THEN example[1] ELSE ContentFallback
    IN  IF fs[p] # None /\ ~force
        THEN [files |-> fs, path |-> p]
        ELSE [files |-> [fs EXCEPT ![p] = Some(content)], path |-> p]

\* write_default_config called directly
CallWriteDefaultConfig(path, force, example) ==
    LET w == WriteDefaultConfig(files, path, force, example)
    IN  /\ files' = w.files
        /\ cli' = [cmd |-> "write_default_config", path |-> path, force |-> force,
                   example |-> example, returned |-> w.path]
        /\ UNCHANGED <<custom, wishlist, quotes, deals>>
        /\ UNCHANGED <<aggVars, webVars>>

\* the user writes a config file
UserWrites(p, content) ==
    /\ files' = [files EXCEPT ![p] = Some(content)]
    /\ cli' = [cmd |-> "edit", path |-> Some(p)]
    /\ UNCHANGED <<custom, wishlist, quotes, deals>>
    /\ UNCHANGED <<aggVars, webVars>>

\* =================================================================== cli.py
MaxCliCustom == 2      \* custom adapters registered by the commands of one process

\* str.strip(), str.split(sep)
RECURSIVE LStrip(_)
LStrip(s) == IF s # <<>> /\ IsBlank(<<Head(s)>>) THEN LStrip(Tail(s)) ELSE s

RECURSIVE RStrip(_)
RStrip(s) ==
    IF s # <<>> /\ IsBlank(<<s[Len(s)]>>) THEN RStrip(SubSeq(s, 1, Len(s) - 1)) ELSE s

Strip(s) == RStrip(LStrip(s))

RECURSIVE Split(_, _)
Split(s, sep) ==
    IF \E i \in 1..Len(s) : s[i] = sep
    THEN LET i == Min({j \in 1..Len(s) : s[j] = sep})
         IN  <<SubSeq(s, 1, i - 1)>> \o Split(SubSeq(s, i + 1, Len(s)), sep)
    ELSE <<s>>

Comma == 44

\* wanted = {s.strip().lower() for s in sources.split(",") if s.strip()}
Wanted(sources) ==
    LET parts == Split(sources, Comma)
    IN  {Lower(Strip(parts[i])) : i \in {j \in 1..Len(parts) : Strip(parts[j]) # <<>>}}

\* a selection that compares the names as they are written
SelectSourcesCaseSensitive(all, wanted) == SelectSeq(all, LAMBDA a : a \in wanted)

\* adapters = [a for a in all_adapters if a.name.lower() in wanted]
SelectSources(all, wanted) == SelectSeq(all, LAMBDA a : Lower(a) \in wanted)

\* --sources values: not given, "a, Nope", "Nope", " , ", "S,b", "A,a"
SourcesNotGiven == <<>>
SourcesMixed == <<97, 44, 32, 78, 111, 112, 101>>
SourcesUnknown == <<78, 111, 112, 101>>
SourcesBlank == <<32, 44, 32>>
SourcesCustom == <<83, 44, 98>>
SourcesTwice == <<65, 44, 97>>
SourcesChoices ==
    {SourcesNotGiven, SourcesMixed, SourcesUnknown, SourcesBlank, SourcesCustom,
     SourcesTwice}

\* what the adapters of a list do in the search of a command: each returns
\* nothing, each returns one quote, each raises
CliOutcomes(list) ==
    {[i \in 1..Len(list) |-> [ok |-> TRUE, batch |-> <<>>]],
     [i \in 1..Len(list) |-> [ok |-> TRUE, batch |-> <<BookResult(ItemDune, list[i])>>]],
     [i \in 1..Len(list) |-> [ok |-> FALSE, err |-> "timeout"]]}

\* the outcome of `bookfinder search QUERY --sources ... --no-save`
SearchOutcome(sources, offline, output, missing, searched, results, exit_code) ==
    [cmd |-> "search", sources |-> sources, offline |-> offline, output |-> output,
     missing |-> missing, searched |-> searched, results |-> results,
     exit_code |-> exit_code]

\* the rest of the search command once `adapters` is settled (None: --sources
\* not given): the price history (empty) when offline, else search_all
SearchAndPrint(sources, offline, said, missing, selected) ==
    IF offline
    THEN cli' = SearchOutcome(sources, offline, said \cup {"No results found."}, missing,
                              None, <<>>, 0)
    ELSE LET list == EffectiveAdapters(selected, custom')
         IN  \E outcome \in CliOutcomes(list) :
               LET run == SearchAllWithReport(list, outcome, 0)
               IN  cli' = IF run.failed
                          THEN SearchOutcome(sources, offline, said, missing, Some(list),
                                             <<>>, 1)
                          ELSE SearchOutcome(sources, offline,
                                 said \cup {IF run.report.results = <<>>
                                            THEN "No results found." ELSE "table"},
                                 missing, Some(list), run.report.results, 0)

\* `bookfinder search QUERY --sources SOURCES [--offline] --no-save`: the group
\* callback registers the sites of the config, then the command runs
CliSearch(sources, offline) ==
    /\ Len(custom) + Len(LoadConfigSites(files)) <= MaxCliCustom
    /\ custom' = custom \o LoadConfigSites(files)
    /\ IF sources # <<>>
       THEN LET wanted == Wanted(sources)
                selected == SelectSources(GetAllAdapters(custom'), wanted)
                missing == wanted \ {Lower(selected[i]) : i \in 1..Len(selected)}
                said == IF missing # {} THEN {"Unknown sources ignored"} ELSE {}
            IN  IF selected = <<>>
                THEN cli' = SearchOutcome(sources, offline,
                                          said \cup {"No valid sources selected."},
                                          missing, None, <<>>, 0)
                ELSE SearchAndPrint(sources, offline, said, missing, Some(selected))
       ELSE SearchAndPrint(sources, offline, {}, {}, None)
    /\ UNCHANGED <<wishlist, quotes, deals, files>>
    /\ UNCHANGED <<aggVars, webVars>>

\* `bookfinder init [--force]`
CliInit(force, example) ==
    LET w == WriteDefaultConfig(files, None, force, example)
    IN  /\ Len(custom) + Len(LoadConfigSites(files)) <= MaxCliCustom
        /\ custom' = custom \o LoadConfigSites(files)
        /\ files' = w.files
        /\ cli' = [cmd |-> "init", path |-> None, force |-> force, example |-> example,
                   returned |-> w.path, output |-> {"Config written to:"},
                   exit_code |-> 0]
        /\ UNCHANGED <<wishlist, quotes, deals>>
        /\ UNCHANGED <<aggVars, webVars>>

CliNext ==
    \/ \E sources \in SourcesChoices, offline \in BOOLEAN : CliSearch(sources, offline)
    \/ \E force \in BOOLEAN, example \in ExampleFiles : CliInit(force, example)
    \/ \E path \in {None, Some(TargetPath)}, force \in BOOLEAN, example \in ExampleFiles :
         CallWriteDefaultConfig(path, force, example)
    \/ \E p \in ConfigPaths, content \in UserContents : UserWrites(p, content)

SpecCli == Init /\ [][CliNext]_vars

\* ========================================================== db/database.py
MaxWishlist == 2       \* rows of the wishlist table
MaxQuotes == 2         \* longest results list handed to check_wishlist_deals

\* "Dune (Deluxe Edition)", "emma", "978"
TitleDeluxe ==
    <<68, 117, 110, 101, 32, 40, 68, 101, 108, 117, 120, 101, 32, 69, 100, 105, 116, 105,
      111, 110, 41>>
TitleEmmaLower == <<101, 109, 109, 97>>
Isbn978 == <<57, 55, 56>>

\* rows of the wishlist table: id, title, isbn, max_price (NULL or a ceiling)
WishDune == [id |-> 1, title |-> TitleDune, isbn |-> NoIsbn, max_price |-> Some(20)]
WishEmma == [id |-> 2, title |-> TitleEmmaLower, isbn |-> Isbn978, max_price |-> Some(20)]
WishNoCeiling == [id |-> 3, title |-> TitleDune, isbn |-> NoIsbn, max_price |-> None]
WishDuneDear == [id |-> 4, title |-> TitleDune, isbn |-> NoIsbn, max_price |-> Some(30)]
WishRows == {WishDune, WishEmma, WishNoCeiling, WishDuneDear}

\* what get_wishlist() may return: rows of distinct ids, in any order
Wishlists ==
    {w \in SeqsUpTo(WishRows, MaxWishlist) :
        \A i, j \in 1..Len(w) : i # j => w[i].id # w[j].id}

\* the quotes of a search: the deluxe edition at 15 and at 25, another title with
\* the wished-for ISBN at 10, a quote without a price but with shipping 5, and
\* "Emma" at 18 plus 5 shipping
QuoteDeluxe15 ==
    [BookResult(ItemDune, NameA) EXCEPT !.title = TitleDeluxe, !.price = 15, !.shipping = None]
QuoteDeluxe25 ==
    [BookResult(ItemDune, NameB) EXCEPT !.title = TitleDeluxe, !.price = 25, !.shipping = None]
QuoteByIsbn ==
    [BookResult(ItemFree, NameC) EXCEPT !.isbn = Isbn978, !.price = 10]
QuoteShippingOnly ==
    [BookResult(ItemDune, NameC) EXCEPT !.price = 0, !.shipping = Some(5)]
QuoteEmma23 ==
    [BookResult(ItemEmma, NameB) EXCEPT !.price = 18, !.shipping = Some(5)]
DealQuotes == {QuoteDeluxe15, QuoteDeluxe25, QuoteByIsbn, QuoteShippingOnly, QuoteEmma23}

\* isbn_match = entry["isbn"] and entry["isbn"] == result.isbn
IsbnMatch(entry, result) == entry.isbn # <<>> /\ entry.isbn = result.isbn

\* title_match = entry["title"].lower() in result.title.lower()
TitleMatch(entry, result) == Contains(Lower(result.title), Lower(entry.title))

\* the inner loop of check_wishlist_deals for one wishlist entry
DealsOfEntry(entry, results) ==
    IF entry.max_price = None THEN <<>>
    ELSE LET hits == SelectSeq(results,
                       LAMBDA r : /\ ~(r.price <= 0)
                                  /\ IsbnMatch(entry, r) \/ TitleMatch(entry, r)
                                  /\ TotalPrice(r) <= entry.max_price[1])
         IN  [k \in 1..Len(hits) |-> <<entry, hits[k]>>]

\* a matcher whose outer loop runs over the quotes
RECURSIVE CheckWishlistDealsByQuote(_, _)
CheckWishlistDealsByQuote(wl, results) ==
    IF results = <<>> THEN <<>>
    ELSE Flatten([e \in 1..Len(wl) |-> DealsOfEntry(wl[e], <<Head(results)>>)])
            \o CheckWishlistDealsByQuote(wl, Tail(results))

\* check_wishlist_deals(results), wl being what get_wishlist() returned
CheckWishlistDeals(wl, results) ==
    Flatten([e \in 1..Len(wl) |-> DealsOfEntry(wl[e], results)])

DealsInit ==
    /\ WebInit
    /\ AggIdle
    /\ custom = <<>>
    /\ wishlist \in Wishlists
    /\ quotes = <<>>
    /\ deals = <<>>
    /\ files = NoFiles
    /\ cli = NoCommand

\* db.check_wishlist_deals(results)
CheckDeals(results) ==
    /\ quotes' = results
    /\ deals' = CheckWishlistDeals(wishlist, results)
    /\ UNCHANGED <<custom, wishlist>>
    /\ UNCHANGED <<files, cli, aggVars, webVars>>

DealsNext == \E results \in SeqsUpTo(DealQuotes, MaxQuotes) : CheckDeals(results)

SpecDeals == DealsInit /\ [][DealsNext]_vars

\* ======================================================================
\* Claims about the aggregator (checked under SpecSearch)
\* ======================================================================
Returned(i) == task[i].state = "returned"
Raised(i) == task[i].state = "raised"

\* number of positions of sequence s holding x
Count(s, x) == Cardinality({i \in 1..Len(s) : s[i] = x})

Ranked(rs) ==
    \A i, j \in 1..Len(rs) :
        i < j =>
            /\ (rs[i].price = 0 => rs[j].price = 0)
            /\ (rs[i].price > 0 /\ rs[j].price > 0 => TotalPrice(rs[i]) <= TotalPrice(rs[j]))

\* the scenario of test_search_sorting_by_total_price: A 5.00 + 1.00, B 3.00 + 0.00,
\* C 0.00 without shipping
TestScenario ==
    /\ adapters = <<NameA, NameB, NameC>>
    /\ nested = << <<BookResult(ItemDune, NameA)>>, <<BookResult(ItemEmma, NameB)>>,
                   <<BookResult(ItemFree, NameC)>> >>

\* C1: when every adapter returned quotes with non-negative prices, the results
\* of the finished call hold the quotes with price > 0 first, in non-decreasing
\* total_price, then the quotes with price 0; the test scenario yields [B, A, C].
C1_Ranking ==
    (phase = "done" /\ \A r \in {Flatten(nested)[i] : i \in 1..Len(Flatten(nested))} : r.price >= 0)
        => /\ Ranked(report.results)
           /\ Len(report.results) = Len(Flatten(nested))
           /\ TestScenario =>
                [i \in 1..3 |-> report.results[i].source] = <<NameB, NameA, NameC>>

C1_Witness ==
    /\ phase = "done"
    /\ TestScenario
    /\ report.results[1].source = NameB

\* C2: when adapter X raises and the others succeed, the call returns normally
\* (no exception escapes), errors[X] is the failure description, every quote of a
\* successful adapter is in the results, and what is recorded for a successful
\* adapter of another name is exactly what it returned.
C2_Isolation ==
    /\ phase # "failed"
    /\ phase = "done" =>
         \A x \in 1..Len(adapters) :
            Raised(x) =>
              /\ adapters[x] \in DOMAIN report.errors
              /\ Some(report.errors[adapters[x]]) = task[x].exc
              /\ \A y \in 1..Len(adapters) :
                    Returned(y) =>
                      /\ \A k \in 1..Len(nested[y]) :
                            Count(report.results, nested[y][k])
                                >= Count(nested[y], nested[y][k])
                      /\ adapters[y] \in DOMAIN report.source_counts
                      /\ (\A z \in 1..Len(adapters) : z # y => adapters[z] # adapters[y])
                            => /\ report.source_counts[adapters[y]] = Len(nested[y])
                               /\ adapters[y] \notin DOMAIN report.errors

C2_Witness ==
    /\ phase = "done"
    /\ Len(adapters) = 3
    /\ Raised(1) /\ Returned(2) /\ Returned(3)
    /\ Len(nested[2]) = 2 /\ Len(nested[3]) = 1
    /\ Len(report.results) = 3

\* C3: in the results of a finished call every quote with price <= 0 (a negative
\* price included) comes after every quote with a positive price.
C3_NonPositiveLast ==
    phase = "done" =>
        \A i, j \in 1..Len(report.results) :
            (report.results[i].price <= 0 /\ report.results[j].price > 0) => j < i

\* the search of adapter i has returned or raised
Completed(i) == Returned(i) \/ Raised(i)

\* C24: if the search of every adapter (eventually) returns or raises, the call
\* eventually returns its report; and the call never returns while the search
\* of some adapter has not completed, whatever the others did.
C24_Termination ==
    /\ (\A i \in 1..Len(adapters) : Completed(i)) ~> (phase = "done")
    /\ [](phase = "done" => \A i \in 1..Len(adapters) : Completed(i))

\* two of three adapters have finished, the first has not, and the call waits
C24_Witness ==
    /\ phase = "gather"
    /\ Len(adapters) = 3
    /\ task[1].state = "running"
    /\ Completed(2) /\ Completed(3)
    /\ ~ENABLED GatherDone

\* a task whose adapter returned invalid data
Invalid(i) == task[i].state \in {"returned_none", "returned_bad"}

\* C11: an adapter that returned invalid data (None, or a list holding a record
\* whose price is not a number) is recorded in errors under its name and
\* contributes no quotes, and no exception leaves search_all_with_report.
C11_InvalidDataContained ==
    /\ phase # "failed"
    /\ \A i \in 1..Len(adapters) :
          Invalid(i) =>
            /\ adapters[i] \in DOMAIN report.errors
            /\ nested[i] = <<>>

\* C12: at the return of search_all_with_report every task has completed (its
\* adapter's search returned or raised, none is pending or in flight) and every
\* supplied adapter's name is a key of source_counts or of errors.
C12_FanInBarrier ==
    phase = "done" =>
        /\ \A i \in 1..Len(adapters) :
              /\ Returned(i) \/ Raised(i)
              /\ adapters[i] \in (DOMAIN report.source_counts) \cup (DOMAIN report.errors)
              /\ Cardinality({k \in 1..Len(finished) : finished[k] = i}) = 1
        /\ Len(finished) = Len(adapters)

\* three adapters, the last of them the first to complete, one failing
C12_Witness ==
    /\ phase = "done"
    /\ finished = <<3, 1, 2>>
    /\ Raised(1) /\ Returned(2) /\ Returned(3)
    /\ DOMAIN report.errors = {NameA}
    /\ DOMAIN report.source_counts = {NameB, NameC}

\* what the adapters returned, concatenated in adapter-list order
Concatenation == Flatten([i \in 1..Len(adapters) |-> task[i].value])

KeysOf(rs) == {RankKey(rs[i]) : i \in 1..Len(rs)}
WithKey(rs, k) == SelectSeq(rs, LAMBDA r : RankKey(r) = k)

\* C13: whatever the order in which the adapters completed, the results of the
\* finished call are the concatenation (adapter-list order, then the order
\* within one adapter's list) ordered by sort key, quotes of equal sort key
\* keeping their concatenation order.
C13_OrderIndependent ==
    phase = "done" =>
        /\ \A i, j \in 1..Len(report.results) :
              i < j => ~LexLess(RankKey(report.results[j]), RankKey(report.results[i]))
        /\ \A k \in KeysOf(Concatenation) \cup KeysOf(report.results) :
              WithKey(report.results, k) = WithKey(Concatenation, k)

\* A and B return quotes of equal sort key, B completes before A, and A's quote
\* still comes first
C13_Witness ==
    /\ phase = "done"
    /\ adapters = <<NameA, NameB, NameC>>
    /\ finished = <<3, 2, 1>>
    /\ task[1].value = <<BookResult(ItemEmma, NameA)>>
    /\ task[2].value = <<BookResult(ItemFree, NameB), BookResult(ItemEmma, NameB)>>
    /\ task[3].value = <<BookResult(ItemFree, NameC)>>
    /\ report.results =
         <<BookResult(ItemEmma, NameA), BookResult(ItemEmma, NameB),
           BookResult(ItemFree, NameB), BookResult(ItemFree, NameC)>>

\* C14: in the finished call, source_counts[name] of every adapter that succeeded
\* is the length of the list it returned, the results hold every quote as often
\* as the returned lists do (unpriced quotes included), and nothing else.
C14_NoDropNoDup ==
    phase = "done" =>
        /\ \A i \in 1..Len(adapters) :
              Returned(i) =>
                /\ adapters[i] \in DOMAIN report.source_counts
                /\ report.source_counts[adapters[i]] = Len(task[i].value)
        /\ Len(report.results) = Len(Concatenation)
        /\ \A k \in 1..Len(Concatenation) :
              Count(report.results, Concatenation[k]) = Count(Concatenation, Concatenation[k])

UniqueNames == \A i, j \in 1..Len(adapters) : i # j => adapters[i] # adapters[j]
Names == {adapters[i] : i \in 1..Len(adapters)}

\* C15: after a call with uniquely named adapters every adapter's name is a key
\* of exactly one of source_counts and errors; when every source failed the
\* results are empty, errors holds every name and source_counts none, and when
\* every source returned nothing the results are empty, errors is empty and
\* source_counts holds every name with count 0.
C15_CountsOrErrors ==
    (phase = "done" /\ UniqueNames) =>
        /\ \A i \in 1..Len(adapters) :
              /\ Raised(i) <=> adapters[i] \in DOMAIN report.errors
              /\ Returned(i) <=> adapters[i] \in DOMAIN report.source_counts
              /\ (adapters[i] \in DOMAIN report.errors)
                    # (adapters[i] \in DOMAIN report.source_counts)
        /\ (DOMAIN report.errors) \cup (DOMAIN report.source_counts) = Names
        /\ (\A i \in 1..Len(adapters) : Raised(i)) =>
              /\ report.results = <<>>
              /\ DOMAIN report.errors = Names
              /\ DOMAIN report.source_counts = {}
        /\ (\A i \in 1..Len(adapters) : Returned(i) /\ task[i].value = <<>>) =>
              /\ report.results = <<>>
              /\ DOMAIN report.errors = {}
              /\ \A n \in Names : report.source_counts[n] = 0

\* every one of three sources failed
C15_Witness ==
    /\ phase = "done"
    /\ adapters = <<NameA, NameB, NameC>>
    /\ \A i \in 1..3 : Raised(i)
    /\ report.results = <<>>
    /\ DOMAIN report.errors = {NameA, NameB, NameC}
    /\ DOMAIN report.source_counts = {}

\* ======================================================================
\* Claims about the result cache (checked under Spec and SpecEvict)
\* ======================================================================
\* a step that is a request which entered _cached_search for resp'.key
EnteredCache == now' = now /\ resp'.key # NoKey

\* C4: the quote list of a cached report stays as search_all_with_report built
\* it (in ranking order), whatever requests have been served since.
C4_CachedReportAsBuilt ==
    \A i \in 1..Len(cache) :
        cache[i].report.results = RankSort(cache[i].report.results)

\* C5: a _cached_search call for a key whose entry is younger than 300 returns
\* the stored report object (same elapsed) and runs no adapter; a call for a key
\* with no entry, or an entry aged 300 or more, runs the aggregator once and
\* stores the new report under the key with created_at = now.
C5_CacheTTL ==
    [][EnteredCache =>
        LET k == resp'.key
            old == {i \in 1..Len(cache) : cache[i].key = k}
            new == {j \in 1..Len(cache') : cache'[j].key = k}
        IN  IF \E i \in old : now - cache[i].created_at < 300
            THEN /\ resp'.hit
                 /\ nruns' = nruns
                 /\ \A i \in old :
                      /\ resp'.report_id = cache[i].report.id
                      /\ resp'.elapsed = cache[i].report.elapsed
                      /\ i \in new
                      /\ cache'[i].created_at = cache[i].created_at
                      /\ cache'[i].report.id = cache[i].report.id
            ELSE /\ ~resp'.hit
                 /\ nruns' = nruns + 1
                 /\ Cardinality(new) = 1
                 /\ \A j \in new :
                      /\ cache'[j].created_at = now
                      /\ cache'[j].report.id = resp'.report_id
                      /\ cache'[j].report.elapsed = resp'.elapsed
                      /\ \A i \in 1..Len(cache) : cache[i].report.id # resp'.report_id
    ]_vars

\* a hit on an entry aged 299, and its recomputation at age 300
C5_Witness ==
    /\ now = 305
    /\ nruns = 2
    /\ ~resp.hit
    /\ resp.report_id = 2
    /\ \E i \in 1..Len(cache) :
         /\ cache[i].key = resp.key
         /\ cache[i].created_at = 305
         /\ cache[i].report.id = 2

\* C6: with strictly increasing created_at, an insertion into a cache of fewer
\* than 50 entries removes nothing, an insertion into a cache of 50 entries
\* removes exactly the entry with the oldest created_at, and so after 51
\* distinct keys the first is absent and exactly 50 entries remain.
C6_Eviction ==
    [][(EnteredCache /\ ~resp'.hit) =>
        LET k == resp'.key
            keys == {cache[i].key : i \in 1..Len(cache)}
            keys2 == {cache'[i].key : i \in 1..Len(cache')}
        IN  /\ Len(cache') <= 50
            /\ Cardinality(keys2) = Len(cache')
            /\ k \in keys2
            /\ (k \in keys \/ Len(cache) < 50) => keys2 = keys \cup {k}
            /\ (k \notin keys /\ Len(cache) = 50) =>
                 \E o \in 1..Len(cache) :
                    /\ \A j \in 1..Len(cache) : j # o => cache[o].created_at < cache[j].created_at
                    /\ keys2 = (keys \ {cache[o].key}) \cup {k}
    ]_vars

C6_Witness ==
    /\ nruns = 51
    /\ Len(cache) = 50
    /\ CacheIndex(cache, FillKey(1)) = 0
    /\ CacheIndex(cache, FillKey(2)) # 0
    /\ CacheIndex(cache, FillKey(51)) = 50

\* a step that is a request whose aggregator run raised
RunFailed == EnteredCache /\ resp'.status = "error" /\ resp'.report_id = 0

\* C16: when the aggregator run inside _cached_search raises, the exception
\* reaches the handler, the cache is left exactly as it was (no entry stored, a
\* stale entry of the key included), and the next lookup for the key computes
\* again.
C16_FailureNotCached ==
    [][/\ RunFailed =>
            /\ cache' = cache
            /\ nruns' = nruns + 1
            /\ ~CacheFresh(cache', resp'.key, now)
       /\ (resp.status = "error" /\ resp.report_id = 0 /\ EnteredCache
             /\ resp'.key = resp.key) =>
            /\ ~resp'.hit
            /\ nruns' = nruns + 1
    ]_vars

\* the run for a key whose entry had gone stale raised, and the stale entry is
\* still there
C16_Witness ==
    /\ resp.status = "error" /\ resp.report_id = 0
    /\ nruns = 2
    /\ Len(cache) = 1
    /\ cache[1].key = resp.key
    /\ cache[1].report.id = 1
    /\ now - cache[1].created_at >= 300

\* C19: a lookup is served by an entry only if the entry's query string, result
\* limit and identifier flag all equal those of the call; a miss stores its
\* report under the key of the call and touches no entry of another key; no two
\* keys ever share an entry or a report.
C19_KeysNotConflated ==
    [][EnteredCache =>
        LET k == resp'.key
        IN  /\ resp'.hit =>
                 \E i \in 1..Len(cache) :
                    /\ cache[i].key[1] = k[1] /\ cache[i].key[2] = k[2]
                    /\ cache[i].key[3] = k[3]
                    /\ cache[i].report.id = resp'.report_id
            /\ ~resp'.hit =>
                 /\ \A i \in 1..Len(cache) : cache[i].report.id # resp'.report_id
                 /\ \E j \in 1..Len(cache') :
                       cache'[j].key = k /\ cache'[j].report.id = resp'.report_id
            /\ \A i \in 1..Len(cache) :
                 cache[i].key # k => \E j \in 1..Len(cache') : cache'[j] = cache[i]
            /\ \A i, j \in 1..Len(cache') :
                 i # j => /\ cache'[i].key # cache'[j].key
                          /\ cache'[i].report.id # cache'[j].report.id
    ]_vars

\* "dune" cached as free text with limits 5 and 10 and as an identifier with
\* limit 5: three entries, and a hit on the identifier one
C19_Witness ==
    /\ Len(cache) = 3
    /\ {cache[i].key : i \in 1..3}
         = {<<QueryDune, 5, FALSE>>, <<QueryDune, 10, FALSE>>, <<QueryDune, 5, TRUE>>}
    /\ resp.hit
    /\ resp.key = <<QueryDune, 5, TRUE>>
    /\ \E i \in 1..3 : cache[i].key = resp.key /\ cache[i].report.id = resp.report_id

\* a report of a run in which every registered adapter failed
FailureReport(rep) ==
    /\ rep.results = <<>>
    /\ DOMAIN rep.source_counts = {}
    /\ DOMAIN rep.errors = {RegisteredAdapters[i] : i \in 1..Len(RegisteredAdapters)}

\* C29: the report of a run in which every adapter failed is stored under the
\* key like any other, and a lookup of the key while that entry is younger than
\* the TTL returns that very report and runs no adapter.
C29_FailureReportCached ==
    [][EnteredCache =>
        LET k == resp'.key
        IN  /\ ~resp'.hit =>
                 \E j \in 1..Len(cache') :
                    /\ cache'[j].key = k
                    /\ cache'[j].created_at = now
                    /\ cache'[j].report.id = resp'.report_id
                    /\ FailureReport(cache'[j].report)
            /\ \A i \in 1..Len(cache) :
                 (/\ cache[i].key = k
                  /\ now - cache[i].created_at < 300
                  /\ FailureReport(cache[i].report)) =>
                    /\ resp'.hit
                    /\ resp'.report_id = cache[i].report.id
                    /\ nruns' = nruns
                    /\ cache' = cache
    ]_vars

\* a lookup served from the cached failure report, four seconds after the run
C29_Witness ==
    /\ resp.hit
    /\ nruns = 1
    /\ \E i \in 1..Len(cache) :
         /\ cache[i].key = resp.key
         /\ cache[i].report.id = resp.report_id
         /\ FailureReport(cache[i].report)
         /\ now - cache[i].created_at = 4

\* C30: every GET /export succeeds (and emits the rows GET /search derives from
\* the same report).
C30_ExportAsSearch ==
    [][(now' = now /\ resp'.op = "export") => resp'.status = "ok"]_vars

\* ======================================================================
\* Claims about the deal matcher (checked under SpecDeals)
\* ======================================================================
Pairs(ds) == {ds[k] : k \in 1..Len(ds)}

\* C17: the pair (entry, quote) is among the deals exactly when the entry has a
\* price ceiling, the quote's effective price (price + shipping) is > 0 and
\* <= the ceiling, and the two have equal non-empty ISBNs or the entry's title
\* is, ignoring case, a substring of the quote's title.
C17_DealMatching ==
    \A e \in 1..Len(wishlist), q \in 1..Len(quotes) :
        (<<wishlist[e], quotes[q]>> \in Pairs(deals))
          <=> /\ wishlist[e].max_price # None
              /\ TotalPrice(quotes[q]) > 0
              /\ TotalPrice(quotes[q]) <= wishlist[e].max_price[1]
              /\ \/ wishlist[e].isbn # <<>> /\ wishlist[e].isbn = quotes[q].isbn
                 \/ Contains(Lower(quotes[q].title), Lower(wishlist[e].title))

\* the quotes paired with entry e, in the order of the quotes
DealsWith(e) ==
    LET hits == SelectSeq(quotes, LAMBDA r : <<wishlist[e], r>> \in Pairs(deals))
    IN  [k \in 1..Len(hits) |-> <<wishlist[e], hits[k]>>]

\* C18: the deals are the matches of the first wishlist entry, then those of the
\* next, and so on in wishlist order; the matches of one entry follow the order
\* of the quotes; a quote matching several entries appears once per entry.
C18_DealOrder ==
    /\ deals = Flatten([e \in 1..Len(wishlist) |-> DealsWith(e)])
    /\ \A k \in 1..Len(deals) :
          /\ \E e \in 1..Len(wishlist) : deals[k][1] = wishlist[e]
          /\ \E q \in 1..Len(quotes) : deals[k][2] = quotes[q]

\* the quote at 15 matches both entries and is listed once for each, after the
\* quote at 25 under the entry that admits both
C18_Witness ==
    /\ wishlist = <<WishDuneDear, WishDune>>
    /\ quotes = <<QuoteDeluxe25, QuoteDeluxe15>>
    /\ deals = << <<WishDuneDear, QuoteDeluxe25>>, <<WishDuneDear, QuoteDeluxe15>>,
                  <<WishDune, QuoteDeluxe15>> >>

\* ======================================================================
\* Claims about the adapter registry (checked under SpecRegistry)
\* ======================================================================
\* C20: whatever was registered, and however often main was invoked, no two of
\* the adapters get_all_adapters returns have the same name.
C20_NamesUnique ==
    \A i, j \in 1..Len(GetAllAdapters(custom)) :
        i # j => GetAllAdapters(custom)[i] # GetAllAdapters(custom)[j]

\* ======================================================================
\* Claims about the rate limiter (checked under SpecRate)
\* ======================================================================
\* a step that is a /search request which reached the rate limiter
ReachedLimiter == now' = now /\ resp'.op = "search" /\ resp'.status # "no_query"

C8_UnseenAllowed ==
    [][(ReachedLimiter /\ resp'.ip \notin DOMAIN lastSearch) =>
        /\ resp'.status # "rate_limited"
        /\ resp'.ip \in DOMAIN lastSearch'
        /\ lastSearch'[resp'.ip] = now
    ]_vars

\* C9: a denied request leaves the rate window, the cache and the number of
\* aggregator runs as they were.
C9_DeniedChangesNothing ==
    [][(ReachedLimiter /\ resp'.status = "rate_limited") =>
        /\ lastSearch' = lastSearch
        /\ cache' = cache
        /\ nruns' = nruns
    ]_vars

\* C10: _cached_search is entered only by a /search request that passed the rate
\* limiter at that instant.
C10_CacheGated ==
    [][EnteredCache =>
        /\ resp'.op = "search"
        /\ resp'.ip \in DOMAIN granted'
        /\ granted'[resp'.ip] = now
    ]_vars

\* ======================================================================
\* Claims about the adapters argument (checked under SpecSupplied)
\* ======================================================================
\* search() has been invoked on adapter i of the call
Invoked(i) == task[i].state # "pending"

\* C25: when the caller supplies a list, search is invoked on the adapters of
\* that list only (position by position), the report returned is the one of
\* that list, and an empty supplied list invokes nothing; the registry is
\* queried when no list is given.
C25_SuppliedListOnly ==
    IF supplied = None
    THEN adapters = GetAllAdapters(custom)
    ELSE /\ \A i \in 1..Len(adapters) :
              Invoked(i) => i \in 1..Len(supplied[1]) /\ adapters[i] = supplied[1][i]
         /\ phase = "done" =>
              /\ Len(task) = Len(supplied[1])
              /\ supplied[1] = <<>> => report.results = <<>>

\* the same for the non-empty lists a caller supplies
C25_NonEmptyListOnly == supplied # Some(<<>>) => C25_SuppliedListOnly

\* ======================================================================
\* Claims about the command line and the config file (checked under SpecCli)
\* ======================================================================
\* C21: with --sources given, the search command searches exactly the
\* registered adapters whose name equals a requested name up to case, in
\* registry order; requested names that match no adapter are reported as
\* "Unknown sources ignored" and the search goes on with the matched ones
\* (exit code 0); when nothing matches, "No valid sources selected." is printed
\* and no search is run.
C21_SourceSelection ==
    (cli.cmd = "search" /\ cli.sources # <<>>) =>
        LET all == GetAllAdapters(custom)
            parts == Split(cli.sources, Comma)
            requested == {Lower(Strip(parts[i])) : i \in 1..Len(parts)} \ {<<>>}
            matches(a) == \E r \in requested : Lower(a) = r
            unknown == {r \in requested : \A i \in 1..Len(all) : Lower(all[i]) # r}
        IN  /\ ("Unknown sources ignored" \in cli.output) <=> (unknown # {})
            /\ cli.missing = unknown
            /\ IF \E i \in 1..Len(all) : matches(all[i])
               THEN /\ "No valid sources selected." \notin cli.output
                    /\ cli.exit_code = 0
                    /\ ~cli.offline => cli.searched = Some(SelectSeq(all, matches))
               ELSE /\ "No valid sources selected." \in cli.output
                    /\ cli.searched = None

\* a search over the one matched adapter, the unknown name reported
C21_Witness ==
    /\ cli.cmd = "search"
    /\ cli.sources = SourcesMixed
    /\ "Unknown sources ignored" \in cli.output
    /\ cli.searched = Some(<<NameA>>)
    /\ cli.exit_code = 0

\* C22: write_default_config returns the path it was asked for and touches no
\* other file; with force=False and the file present the file is left as it
\* is; with the file absent, or force=True, the default content is written;
\* a second call with force=False changes nothing.
C22_NoOverwrite ==
    [][cli'.cmd \in {"write_default_config", "init"} =>
          LET p == cli'.returned
              default == IF cli'.example # None THEN cli'.example[1] ELSE ContentFallback
          IN  /\ p = IF cli'.path = None THEN DefaultConfigPath ELSE cli'.path[1]
              /\ \A q \in ConfigPaths \ {p} : files'[q] = files[q]
              /\ (files[p] # None /\ ~cli'.force) => files'[p] = files[p]
              /\ (files[p] = None \/ cli'.force) => files'[p] = Some(default)
              /\ (/\ cli.cmd \in {"write_default_config", "init"}
                  /\ ~cli.force /\ ~cli'.force /\ cli.returned = p) => files' = files]_vars

\* a file of the user that a call without force has left alone
C22_Witness ==
    /\ cli.cmd = "write_default_config"
    /\ ~cli.force
    /\ cli.example # None
    /\ files[cli.returned] = Some(ContentEUR)

\* ======================================================================
\* Claims about overlapping lookups (checked under SpecOverlap and SpecConc)
\* ======================================================================
\* a step in which a _cached_search call returns the report its own run built:
\* resp' holds the key asked for and the report returned
ReturnedFresh ==
    /\ now' = now
    /\ \/ inflight' = inflight /\ nruns' = nruns + 1
       \/ \E r \in inflight : inflight' = inflight \ {r}

\* C23: whatever lookups overlap, in every state (so wherever a lookup is
\* suspended) the cache has at most one entry per key and at most 50 entries,
\* and every entry is a whole pair: a time read by a lookup and the report of a
\* run.
C23_CacheWellFormed ==
    /\ \A i, j \in 1..Len(cache) : i # j => cache[i].key # cache[j].key
    /\ Len(cache) <= 50
    /\ \A i \in 1..Len(cache) :
         /\ DOMAIN cache[i] = {"key", "created_at", "report"}
         /\ cache[i].created_at \in 0..now
         /\ DOMAIN cache[i].report = DOMAIN EmptyReport
         /\ cache[i].report.id \in 1..nruns

\* the cache is full and holds the key of a suspended lookup, stored by another
\* lookup that missed on it
C23_Witness ==
    /\ Len(cache) = 50
    /\ \E r \in inflight :
         /\ CacheIndex(cache, r.key) # 0
         /\ cache[CacheIndex(cache, r.key)].report.id # r.id

\* C27: when _cached_search returns a report its run has just built, the cache
\* holds an entry for the key asked for, with that report.
C27_InsertedSurvives ==
    [][ReturnedFresh =>
        \E j \in 1..Len(cache') :
            cache'[j].key = resp'.key /\ cache'[j].report.id = resp'.report_id]_vars

\* C28: the created_at of the entry stored under a key never decreases.
C28_CreatedAtMonotone ==
    [][\A i \in 1..Len(cache), j \in 1..Len(cache') :
          cache[i].key = cache'[j].key => cache'[j].created_at >= cache[i].created_at]_vars

\* a step in which a /search request of client ip passed the rate limiter: it
\* was suspended in its lookup, or served from the cache
PassedLimiter(ip) ==
    /\ now' = now
    /\ \/ \E r \in inflight' \ inflight : r.ip = ip
       \/ inflight' = inflight /\ resp'.op = "search" /\ resp'.ip = ip /\ resp'.status = "ok"

\* C26: a /search request of a client passes the rate limiter only when the
\* last request of that client that passed did so at least 5 earlier, whatever
\* requests are suspended at that moment.
C26_PassesApart ==
    [][\A ip \in IPs :
          (PassedLimiter(ip) /\ ip \in DOMAIN granted) => now - granted[ip] >= 5]_vars

\* two requests of one client suspended at the same time, passed 5 apart, and a
\* third one of that client just denied
C26_Witness ==
    /\ \E r1, r2 \in inflight : r1.ip = r2.ip /\ r1.started = 5 /\ r2.started = 10
                                 /\ resp.ip = r1.ip
    /\ resp.status = "rate_limited"
    /\ now = 10

====
